---- MODULE Spec2Model ----
(***************************************************************************)
(* A model of the klee-bench harness: the options-to-command-line          *)
(* translator and the run sequence of runklee.py, the statistics reader    *)
(* of kresult.py, and the CSV printer and progress logger of util.py.      *)
(*                                                                         *)
(* Python values are modelled as follows.                                  *)
(*   Optional[T]   None is <<>> and a value v is <<v>>.                    *)
(*   str           a TLA+ string; \o is Python's +.                        *)
(*   a path        the sequence of its "/"-separated components, so that   *)
(*                 "out" is <<"out">> and "out/" is <<"out", "">>.         *)
(*   a text that is parsed (int(), float()) is a sequence of characters.   *)
(***************************************************************************)
EXTENDS Integers, Sequences, FiniteSets, TLC

VARIABLES
    o,              \* KleeRunner.options (a KleeRunOptions record)
    cmdResult,      \* outcome of the last get_run_command call
    kdata,          \* KResult._data of the result under inspection
    getResult,      \* outcome of the last KResult.get call
    csvFile,        \* the statistics file handed to KResult.from_csv
    fromCsvResult,  \* outcome of the last KResult.from_csv call
    pc,             \* position of KleeRunner.run
    dirs,           \* file system: the directories that exist
    files,          \* file system: the files that exist, with their content
    events,         \* history of the external effects of run, in order
    kleeExit,       \* how the external tool ended
    results,        \* what run returned or raised
    fsText,         \* text files of the printer and the logger, by path
    rcp,            \* the ResultCSVPrinter object
    written,        \* history: the rows write_row appended
    lastCall,       \* history: the last call on the printer
    logger,         \* the ProgressLogger object
    logged,         \* history: the messages log appended
    lastPersist     \* history: the last persist_to_file call

cmdVars == <<o, cmdResult>>
getVars == <<kdata, getResult>>
csvVars == <<csvFile, fromCsvResult>>
runVars == <<pc, dirs, files, events, kleeExit, results>>
rcpVars == <<rcp, written, lastCall>>
logVars == <<logger, logged, lastPersist>>
vars == <<o, cmdResult, kdata, getResult, csvFile, fromCsvResult, pc, dirs,
          files, events, kleeExit, results, fsText, rcp, written, lastCall,
          logger, logged, lastPersist>>

(***************************************************************************)
(* Python helpers.                                                         *)
(***************************************************************************)
None == <<>>

Some(v) == <<v>>

\* bool(x) of an Optional[int]: None and 0 are falsy.
Truthy(opt) == opt # None /\ opt[1] # 0

\* str(b) of a bool.
StrBool(b) == IF b THEN "True" ELSE "False"

\* str(n) of an int.
StrInt(n) == ToString(n)

\* "/".join(components): the text of a path.
RECURSIVE PathStr(_)
PathStr(p) ==
    IF p = <<>> THEN ""
    ELSE IF Len(p) = 1 THEN p[1]
    ELSE p[1] \o "/" \o PathStr(Tail(p))

\* The components of text(p) + suffix, for a suffix holding no "/".
PathPlus(p, suffix) == [p EXCEPT ![Len(p)] = @ \o suffix]

\* The file-system object a path names: empty components ("a//b", "a/") drop out.
Norm(p) == SelectSeq(p, LAMBDA c : c # "")

IsPrefix(s, t) == Len(s) <= Len(t) /\ SubSeq(t, 1, Len(s)) = s

\* f lies in the directory tree rooted at d.
Inside(f, d) == IsPrefix(Norm(d), Norm(f)) /\ Norm(d) # Norm(f)

(***************************************************************************)
(* util.py: paths of the tools and of the programs.                        *)
(***************************************************************************)
KLEE_BIN_PATH == "/klee/build/bin"

COREUTILS_SRC_PATH == "/coreutils/obj-llvm/src"

\* os.path.join(a, b) for a relative b and an a that does not end in "/".
OsPathJoin(a, b) == a \o "/" \o b

klee_exec_path(exec_name) == OsPathJoin(KLEE_BIN_PATH, exec_name)

\* The program names of the model, and those among them that end in ".bc".
ProgramNames == {"base64", "echo", "od.bc"}

BcNames == {"od.bc"}

coreutils_src_path(name, program) ==
    LET n == IF program /\ name \notin BcNames THEN name \o ".bc" ELSE name
    IN  OsPathJoin(COREUTILS_SRC_PATH, n)

(***************************************************************************)
(* Text files, as open(), write() and read() act on them. A file system of *)
(* text files is a function from the paths of the files that exist to      *)
(* their content.                                                          *)
(***************************************************************************)
\* with open(path, "w") as f: f.write(text)
OpenWrite(fs, path, text) ==
    [p \in DOMAIN fs \cup {path} |-> IF p = path THEN text ELSE fs[p]]

\* with open(path, "a") as f: f.write(text)
OpenAppend(fs, path, text) ==
    [p \in DOMAIN fs \cup {path} |->
        IF p # path THEN fs[p]
        ELSE IF path \in DOMAIN fs THEN fs[path] \o text ELSE text]

\* sep.join(texts)
RECURSIVE JoinStr(_, _)
JoinStr(texts, sep) ==
    IF texts = <<>> THEN ""
    ELSE IF Len(texts) = 1 THEN texts[1]
    ELSE texts[1] \o sep \o JoinStr(Tail(texts), sep)

RESULTS_DIR == "results"

PROGRESS_DIR == "progress"

(***************************************************************************)
(* util.py: ProgressLogger.                                                *)
(***************************************************************************)
\* ProgressLogger.__init__: the object, and the file system it leaves.
ProgressLogger(fs, progress_file) ==
    [self |-> [progress_file |-> progress_file],
     fs |-> OpenWrite(fs, progress_file, "")]

\* A variant of log that opens the progress file with "w".
log_truncating(self, fs, progress) ==
    OpenWrite(fs, self.progress_file, progress \o "\n\n\n")

\* ProgressLogger.log: the file system it leaves.
log(self, fs, progress) ==
    OpenAppend(fs, self.progress_file, progress \o "\n\n\n")

\* ProgressLogger.log_and_print: print, then log.
log_and_print(self, fs, progress) == log(self, fs, progress)

\* The destination persist_to_file computes from its arguments.
PersistPath(file, append_txt, prepend_progress) ==
    LET f == IF append_txt THEN file \o ".txt" ELSE file
    IN  IF prepend_progress THEN OsPathJoin(PROGRESS_DIR, f) ELSE f

\* ProgressLogger.persist_to_file: the destination is opened with "w", then
\* the progress file is read and written to it.
persist_to_file(self, fs, file, append_txt, prepend_progress) ==
    LET dest == PersistPath(file, append_txt, prepend_progress)
        opened == OpenWrite(fs, dest, "")
    IN  OpenWrite(opened, dest, opened[self.progress_file])

(***************************************************************************)
(* util.py: ResultCSVPrinter. An item of a row is a str or an int:         *)
(* [kind |-> "str", s |-> text, n |-> 0] or [kind |-> "int", s |-> "", n]. *)
(***************************************************************************)
StrItem(text) == [kind |-> "str", s |-> text, n |-> 0]

IntItem(n) == [kind |-> "int", s |-> "", n |-> n]

\* str(item)
PyStr(item) == IF item.kind = "int" THEN StrInt(item.n) ELSE item.s

\* list(map(str, row))
MapStr(row) == [i \in DOMAIN row |-> PyStr(row[i])]

\* The path ResultCSVPrinter.__init__ computes from its arguments.
CsvPath(experiment_name, append_csv, prepend_results) ==
    LET f == IF append_csv THEN experiment_name \o ".csv" ELSE experiment_name
    IN  IF prepend_results THEN OsPathJoin(RESULTS_DIR, f) ELSE f

\* ResultCSVPrinter.__init__: the object, and the file system it leaves.
ResultCSVPrinter(fs, column_names, experiment_name, append_csv, prepend_results) ==
    LET csv_file == CsvPath(experiment_name, append_csv, prepend_results)
    IN  [self |-> [columns |-> column_names, csv_file |-> csv_file],
         fs |-> OpenWrite(fs, csv_file, JoinStr(column_names, ",") \o "\n")]

\* A variant of write_row that appends the row before it checks its length.
write_row_then_assert(self, fs, row) ==
    [raised |-> Len(row) # Len(self.columns),
     fs |-> OpenAppend(fs, self.csv_file, JoinStr(MapStr(row), ",") \o "\n")]

\* A variant of write_row that opens the file with "w".
write_row_truncating(self, fs, row) ==
    IF Len(row) # Len(self.columns)
    THEN [raised |-> TRUE, fs |-> fs]
    ELSE [raised |-> FALSE,
          fs |-> OpenWrite(fs, self.csv_file, JoinStr(MapStr(row), ",") \o "\n")]

\* ResultCSVPrinter.write_row: whether it raised AssertionError, and the file
\* system it leaves.
write_row(self, fs, row) ==
    IF Len(row) # Len(self.columns)
    THEN [raised |-> TRUE, fs |-> fs]
    ELSE [raised |-> FALSE,
          fs |-> OpenAppend(fs, self.csv_file, JoinStr(MapStr(row), ",") \o "\n")]

\* ResultCSVPrinter.read
read(self, fs) == fs[self.csv_file]

(***************************************************************************)
(* runklee.py: the configuration record.                                   *)
(***************************************************************************)
SearchStrategy ==
    [DefaultHeuristic |-> "--search=random-path --search=nurs:covnew",
     Inputting |-> "--search=inputting",
     DFS |-> "--search=dfs",
     BFS |-> "--search=bfs"]

Solver == [Z3 |-> "z3", STP |-> "stp"]

SYM_ARGS_EXCEPTIONS ==
    [dd |-> "--sym-args 0 3 10 --sym-files 1 8 --sym-stdin 8 --sym-stdout",
     dircolors |-> "--sym-args 0 3 10 --sym-files 2 12 --sym-stdin 12 --sym-stdout",
     echo |-> "--sym-args 0 4 300 --sym-files 2 30 --sym-stdin 30 --sym-stdout",
     expr |-> "--sym-args 0 1 10 --sym-args 0 3 2 --sym-stdout",
     mknod |-> "--sym-args 0 1 10 --sym-args 0 3 2 --sym-files 1 8 --sym-stdin 8 --sym-stdout",
     od |-> "--sym-args 0 3 10 --sym-files 2 12 --sym-stdin 12 --sym-stdout",
     pathchk |-> "--sym-args 0 1 2 --sym-args 0 1 300 --sym-files 1 8 --sym-stdin 8 --sym-stdout",
     printf |-> "--sym-args 0 3 10 --sym-files 2 12 --sym-stdin 12 --sym-stdout"]

sym_args_for_program(name) ==
    IF name \in DOMAIN SYM_ARGS_EXCEPTIONS
    THEN SYM_ARGS_EXCEPTIONS[name]
    ELSE "--sym-args 0 1 10 --sym-args 0 2 2 --sym-files 1 8 --sym-stdin 8 --sym-stdout"

\* The fields of KleeRunOptions that have a default, at their default.
OptionDefaults ==
    [solver |-> Solver.Z3,
     cex |-> TRUE, independent |-> TRUE, branch |-> TRUE,
     timeToRun |-> None, instructions |-> None,
     removeOutput |-> TRUE,
     simplify |-> TRUE, solverTimeout |-> None,
     externalCalls |-> "concrete", dumpStates |-> FALSE,
     logFile |-> None, debugDumpZ3File |-> None,
     additionalOptions |-> "",
     envFile |-> coreutils_src_path("test.env", FALSE),
     runInDir |-> "/tmp/sandbox",
     simplifySymIndices |-> TRUE, writeCvcs |-> TRUE, writeCov |-> TRUE,
     outputModule |-> TRUE, disableInlining |-> TRUE, optimize |-> TRUE,
     useForkedSolver |-> TRUE, libc |-> "uclibc", posixRuntime |-> TRUE,
     newStates |-> TRUE, maxSymArraySize |-> 4096, maxMemoryInhibit |-> FALSE,
     maxStaticForkPct |-> 1, maxStaticSolvePct |-> 1, maxStaticCpforkPct |-> 1,
     switchType |-> "internal",
     stateOutputFile |-> None, trOutputFile |-> None,
     stateInputFile |-> None, trInputFile |-> None]

\* KleeRunOptions(**required, **given): the dataclass constructor.
Merge(f, g) ==
    [k \in DOMAIN f \cup DOMAIN g |-> IF k \in DOMAIN g THEN g[k] ELSE f[k]]

KleeRunOptions(required, given) == Merge(Merge(OptionDefaults, required), given)

(***************************************************************************)
(* runklee.py: KleeRunner.get_run_command.                                 *)
(***************************************************************************)
\* f"--{k}={v}", for a value already rendered by str().
arg(k, v) == "--" \o k \o "=" \o v

\* A variant of opt_arg that tests the truth of the optional, "if optional:".
opt_arg_if_truthy(key, optional, value) ==
    IF optional # None /\ optional[1] \notin {"", "0"}
    THEN arg(key, IF value # None THEN value[1] ELSE optional[1])
    ELSE ""

\* opt_arg: optional and value are Optional[str], the str() of the field.
opt_arg(key, optional, value) ==
    IF optional # None
    THEN arg(key, IF value # None THEN value[1] ELSE optional[1])
    ELSE ""

\* str() under an Optional[int].
OptStrInt(opt) == IF opt = None THEN None ELSE Some(StrInt(opt[1]))

\* A variant of the run-limit assertion that takes 0 for a set value.
RunLimitNotNone(opts) == opts.timeToRun # None \/ opts.instructions # None

\* "assert o.timeToRun or o.instructions": the truth of the asserted value.
RunLimitSet(opts) == Truthy(opts.timeToRun) \/ Truthy(opts.instructions)

\* "x or 0" of an Optional[int].
OrZero(opt) == IF Truthy(opt) THEN opt[1] ELSE 0

\* The list literal "command = [...]", before the empty strings are filtered.
CommandList(opts) ==
    << klee_exec_path("klee"),
       arg("env-file", opts.envFile),
       arg("run-in-dir", opts.runInDir),
       arg("output-dir", PathStr(opts.dirName)),
       arg("solver-backend", opts.solver),
       opt_arg("max-solver-time", OptStrInt(opts.solverTimeout), None),
       arg("simplify-sym-indices", StrBool(opts.simplifySymIndices)),
       opt_arg("use-query-log", opts.logFile, Some("all:smt2")),
       arg("write-cvcs", StrBool(opts.writeCvcs)),
       arg("write-cov", StrBool(opts.writeCov)),
       arg("output-module", StrBool(opts.outputModule)),
       arg("max-memory", StrInt(opts.memory)),
       arg("disable-inlining", StrBool(opts.disableInlining)),
       arg("optimize", StrBool(opts.optimize)),
       arg("use-forked-solver", StrBool(opts.useForkedSolver)),
       arg("use-cex-cache", StrBool(opts.cex)),
       arg("use-independent-solver", StrBool(opts.independent)),
       arg("use-branch-cache", StrBool(opts.branch)),
       arg("rewrite-equalities", StrBool(opts.simplify)),
       arg("libc", opts.libc),
       arg("posix-runtime", StrBool(opts.posixRuntime)),
       arg("external-calls", opts.externalCalls),
       arg("only-output-states-covering-new", StrBool(opts.newStates)),
       arg("max-sym-array-size", StrInt(opts.maxSymArraySize)),
       arg("max-time", StrInt(OrZero(opts.timeToRun)) \o "s"),
       arg("watchdog", StrBool(Truthy(opts.timeToRun))),
       arg("max-instructions", StrInt(OrZero(opts.instructions))),
       arg("max-memory-inhibit", StrBool(opts.maxMemoryInhibit)),
       arg("max-static-fork-pct", StrInt(opts.maxStaticForkPct)),
       arg("max-static-solve-pct", StrInt(opts.maxStaticSolvePct)),
       arg("max-static-cpfork-pct", StrInt(opts.maxStaticCpforkPct)),
       arg("switch-type", opts.switchType),
       arg("dump-states-on-halt", StrBool(opts.dumpStates)),
       opts.searchStrategy,
       opt_arg("use-batching-search", OptStrInt(opts.batchingInstrs), Some(StrBool(TRUE))),
       opt_arg("batch-instructions", OptStrInt(opts.batchingInstrs), None),
       opt_arg("debug-z3-dump-queries", opts.debugDumpZ3File, None),
       opt_arg("state-output", opts.stateOutputFile, None),
       opt_arg("tr-output", opts.trOutputFile, None),
       opt_arg("state-input", opts.stateInputFile, None),
       opt_arg("tr-input", opts.trInputFile, None),
       opts.additionalOptions,
       coreutils_src_path(opts.name, TRUE),
       sym_args_for_program(opts.name) >>

\* A variant of get_run_command that puts the manual options after the program
\* and its symbolic arguments.
get_run_command_options_last(opts) ==
    IF ~RunLimitSet(opts)
    THEN [status |-> "AssertionError", command |-> <<>>]
    ELSE [status |-> "returned",
          command |->
              SelectSeq(CommandList([opts EXCEPT !.additionalOptions = ""])
                            \o <<opts.additionalOptions>>,
                        LAMBDA s : s # "")]

\* get_run_command: the assertion, then list(filter(bool, command)).
get_run_command(opts) ==
    IF ~RunLimitSet(opts)
    THEN [status |-> "AssertionError", command |-> <<>>]
    ELSE [status |-> "returned",
          command |-> SelectSeq(CommandList(opts), LAMBDA s : s # "")]

(***************************************************************************)
(* The configurations of the model.                                        *)
(***************************************************************************)
DirNames == {<<"out">>, <<"out", "">>}

IntOptions == {None, Some(0), Some(30)}

\* stateOutputFile, trOutputFile, stateInputFile, trInputFile: a plain run, a
\* run that records, a run that replays, and two mixed ones.
ReplayFiles ==
    LET p == Some("/replay/base64")
    IN  { <<None, None, None, None>>, <<p, p, None, None>>, <<None, None, p, p>>,
          <<p, None, None, p>>, <<None, p, p, None>> }

CommandOptions ==
    { KleeRunOptions(
        [name |-> n, dirName |-> d, searchStrategy |-> SearchStrategy.DFS,
         batchingInstrs |-> b, memory |-> 2000],
        [timeToRun |-> t, instructions |-> i, solverTimeout |-> st,
         logFile |-> lf, debugDumpZ3File |-> dz, stateOutputFile |-> f[1],
         trOutputFile |-> f[2], stateInputFile |-> f[3], trInputFile |-> f[4],
         additionalOptions |-> ao]) :
        n \in ProgramNames, d \in {<<"out">>}, b \in {None, Some(1000)},
        t \in IntOptions, i \in IntOptions, st \in IntOptions,
        lf \in {None, Some("queries.smt2")}, dz \in {None, Some(""), Some("z3.log")},
        f \in ReplayFiles, ao \in {"", "--restart-interval=500"} }

NoCommand == [status |-> "none", command |-> <<>>]

(***************************************************************************)
(* kresult.py: KResult.get and _parse_value. int() and float() are the     *)
(* Python built-ins, modelled on texts (sequences of characters) by the    *)
(* grammar they accept.                                                    *)
(***************************************************************************)
Digits == <<"0", "1", "2", "3", "4", "5", "6", "7", "8", "9">>

IsDigit(c) == \E i \in DOMAIN Digits : Digits[i] = c

DigitValue(c) == (CHOOSE i \in DOMAIN Digits : Digits[i] = c) - 1

IsSpace(c) == c \in {" ", "\t", "\n"}

RECURSIVE LStrip(_)
LStrip(s) == IF s # <<>> /\ IsSpace(Head(s)) THEN LStrip(Tail(s)) ELSE s

RECURSIVE RStrip(_)
RStrip(s) ==
    IF s # <<>> /\ IsSpace(s[Len(s)]) THEN RStrip(SubSeq(s, 1, Len(s) - 1)) ELSE s

\* str.strip(), which int() and float() apply to their argument.
Strip(s) == RStrip(LStrip(s))

Sign(s) == IF s # <<>> /\ s[1] = "-" THEN -1 ELSE 1

Unsigned(s) == IF s # <<>> /\ s[1] \in {"+", "-"} THEN Tail(s) ELSE s

\* digit (["_"] digit)*: digits, with single underscores between digits.
IsDigitPart(s) ==
    /\ s # <<>>
    /\ IsDigit(s[1])
    /\ IsDigit(s[Len(s)])
    /\ \A i \in DOMAIN s :
        /\ IsDigit(s[i]) \/ s[i] = "_"
        /\ s[i] = "_" => s[i + 1] # "_"

\* The number a digit part denotes; underscores do not count.
RECURSIVE DigitsValue(_)
DigitsValue(s) ==
    IF s = <<>> THEN 0
    ELSE LET c == s[Len(s)]
             rest == SubSeq(s, 1, Len(s) - 1)
         IN  IF c = "_" THEN DigitsValue(rest)
             ELSE DigitsValue(rest) * 10 + DigitValue(c)

CountDigits(s) == Cardinality({i \in DOMAIN s : IsDigit(s[i])})

RECURSIVE Pow10(_)
Pow10(n) == IF n = 0 THEN 1 ELSE 10 * Pow10(n - 1)

ValueError == [ok |-> FALSE, value |-> 0]

\* int(s) of a text: [sign] digit part, between optional white space.
PyInt(s) ==
    LET t == Strip(s)
        u == Unsigned(t)
    IN  IF IsDigitPart(u)
        THEN [ok |-> TRUE, value |-> Sign(t) * DigitsValue(u)]
        ELSE ValueError

\* A float is kept as <<mantissa, exponent>>, for mantissa * 10^exponent, with
\* no trailing zero in the mantissa.
RECURSIVE Normal(_, _)
Normal(mantissa, exponent) ==
    IF mantissa = 0 THEN <<0, 0>>
    ELSE IF mantissa % 10 = 0 THEN Normal(mantissa \div 10, exponent + 1)
    ELSE <<mantissa, exponent>>

\* float(s) of a text: [sign] (digits ["." [digits]] | "." digits) [exponent],
\* between optional white space. (inf, infinity and nan are not modelled.)
PyFloat(s) ==
    LET t == Strip(s)
        u == Unsigned(t)
        es == {i \in DOMAIN u : u[i] \in {"e", "E"}}
        k == IF es = {} THEN Len(u) + 1 ELSE CHOOSE i \in es : TRUE
        m == SubSeq(u, 1, k - 1)
        x == SubSeq(u, k + 1, Len(u))
        ds == {i \in DOMAIN m : m[i] = "."}
        d == IF ds = {} THEN Len(m) + 1 ELSE CHOOSE i \in ds : TRUE
        ip == SubSeq(m, 1, d - 1)
        fp == SubSeq(m, d + 1, Len(m))
        mantissaOk ==
            /\ Cardinality(ds) <= 1
            /\ IF ds = {} THEN IsDigitPart(m)
               ELSE /\ ip = <<>> \/ IsDigitPart(ip)
                    /\ fp = <<>> \/ IsDigitPart(fp)
                    /\ ip # <<>> \/ fp # <<>>
        exponentOk ==
            /\ Cardinality(es) <= 1
            /\ es # {} => IsDigitPart(Unsigned(x))
        mantissa == Sign(t) * (DigitsValue(ip) * Pow10(CountDigits(fp)) + DigitsValue(fp))
        exponent == Sign(x) * DigitsValue(Unsigned(x)) - CountDigits(fp)
    IN  IF mantissaOk /\ exponentOk
        THEN [ok |-> TRUE, value |-> Normal(mantissa, exponent)]
        ELSE ValueError

\* A variant of _parse_value that tries float() before int().
parse_value_float_first(value) ==
    IF PyFloat(value).ok THEN [type |-> "float", value |-> PyFloat(value).value]
    ELSE IF PyInt(value).ok THEN [type |-> "int", value |-> PyInt(value).value]
    ELSE [type |-> "str", value |-> value]

\* KResult._parse_value: try int(), on ValueError try float(), on ValueError
\* the value itself.
parse_value(value) ==
    IF PyInt(value).ok THEN [type |-> "int", value |-> PyInt(value).value]
    ELSE IF PyFloat(value).ok THEN [type |-> "float", value |-> PyFloat(value).value]
    ELSE [type |-> "str", value |-> value]

\* KResult.get: self._data.get(field.value) is None for an absent field, and
\* int(None) raises TypeError, which _parse_value does not catch.
get(data, field) ==
    IF field \in DOMAIN data THEN parse_value(data[field])
    ELSE [type |-> "TypeError", value |-> <<>>]

(***************************************************************************)
(* util.py: dict_from_csv, and kresult.py: KResult.from_csv. A CSV file is *)
(* the sequence of its lines, a line the sequence of its cells (<<>> for a *)
(* blank line); the first line holds the field names. The lines of the     *)
(* model are blank or as wide as the header, as klee-stats writes them.    *)
(***************************************************************************)
\* dict(zip(fieldnames, row)).
ZipDict(fieldnames, row) ==
    [k \in {fieldnames[i] : i \in DOMAIN fieldnames} |->
        row[CHOOSE i \in DOMAIN fieldnames :
                /\ fieldnames[i] = k
                /\ \A j \in DOMAIN fieldnames : fieldnames[j] = k => j <= i]]

\* list(csv.DictReader(file)): one dict per line after the header; DictReader
\* skips the blank lines.
RECURSIVE DictRows(_, _)
DictRows(fieldnames, lines) ==
    IF lines = <<>> THEN <<>>
    ELSE IF Head(lines) = <<>> THEN DictRows(fieldnames, Tail(lines))
    ELSE <<ZipDict(fieldnames, Head(lines))>> \o DictRows(fieldnames, Tail(lines))

dict_from_csv(file) ==
    IF file = <<>> THEN <<>> ELSE DictRows(Head(file), Tail(file))

\* A variant of from_csv that asserts "len(data) >= 1".
from_csv_first_row(file) ==
    LET data == dict_from_csv(file)
    IN  IF Len(data) < 1
        THEN [status |-> "AssertionError", data |-> <<>>]
        ELSE [status |-> "returned", data |-> data[1]]

\* KResult.from_csv: assert len(data) == 1, then cls(data[0]).
from_csv(file) ==
    LET data == dict_from_csv(file)
    IN  IF Len(data) # 1
        THEN [status |-> "AssertionError", data |-> <<>>]
        ELSE [status |-> "returned", data |-> data[1]]

(***************************************************************************)
(* runklee.py: KleeRunner.run and its steps. The file system of a run is   *)
(* dirs, the set of the directories that exist, and files, a function from *)
(* the files that exist to their content; both hold normalised paths. The  *)
(* content of a statistics file is a CSV file as above.                    *)
(***************************************************************************)
Restrict(f, S) == [x \in S |-> f[x]]

Put(f, x, v) == [y \in DOMAIN f \cup {x} |-> IF y = x THEN v ELSE f[y]]

Range(f) == {f[x] : x \in DOMAIN f}

Parent(p) == SubSeq(p, 1, Len(p) - 1)

\* shutil.rmtree(d), rm -rf d: the directory and all that lies in it go.
RemoveTree(fsDirs, fsFiles, d) ==
    [dirs |-> {x \in fsDirs : ~IsPrefix(Norm(d), x)},
     files |-> Restrict(fsFiles, {x \in DOMAIN fsFiles : ~IsPrefix(Norm(d), x)})]

\* KleeRunner.prepare: an existing output directory is removed.
prepare(opts, fsDirs, fsFiles) ==
    IF Norm(opts.dirName) \in fsDirs
    THEN [fs |-> RemoveTree(fsDirs, fsFiles, opts.dirName), events |-> <<"rmtree">>]
    ELSE [fs |-> [dirs |-> fsDirs, files |-> fsFiles], events |-> <<>>]

\* KleeRunner.log_command: the text logged when there is a logger.
CommandLogText(command) ==
    "At <now>, running command...\n" \o JoinStr(command, " ")

log_command(self_logger, fs, command) ==
    IF self_logger # None
    THEN log_and_print(self_logger[1], fs, CommandLogText(command))
    ELSE fs

\* The external tool, as run relies on it: started with --output-dir=d it
\* creates d and writes d/run.stats, and d/all-queries.smt2 when the command
\* asks for the query log; a run that fails early leaves nothing.
QueryLog == "(check-sat)"

KleeTool(command, opts, fsDirs, fsFiles, exit, row) ==
    IF exit.kind = "exited" /\ exit.output
    THEN LET d == Norm(opts.dirName)
             withStats == Put(fsFiles, d \o <<"run.stats">>, row)
         IN  [dirs |-> fsDirs \cup {d},
              files |-> IF arg("use-query-log", "all:smt2") \in Range(command)
                        THEN Put(withStats, d \o <<"all-queries.smt2">>, QueryLog)
                        ELSE withStats]
    ELSE [dirs |-> fsDirs, files |-> fsFiles]

\* A variant of the call of the tool with check=True: a non-zero exit raises.
subprocess_run_check(exit) ==
    IF exit.kind = "OSError" THEN [raised |-> TRUE, error |-> "OSError"]
    ELSE IF exit.code # 0 THEN [raised |-> TRUE, error |-> "CalledProcessError"]
    ELSE [raised |-> FALSE, error |-> ""]

\* subprocess.run(command), without check=True: only a tool that cannot be
\* started raises; the exit status is not looked at.
subprocess_run(exit) ==
    IF exit.kind = "OSError" THEN [raised |-> TRUE, error |-> "OSError"]
    ELSE [raised |-> FALSE, error |-> ""]

\* klee-stats --table-format=csv --print-all d: the header and one row for a
\* directory that holds run statistics, nothing on stdout otherwise.
KleeStats(opts, fsDirs, fsFiles) ==
    LET stats == Norm(opts.dirName) \o <<"run.stats">>
    IN  IF Norm(opts.dirName) \in fsDirs /\ stats \in DOMAIN fsFiles
        THEN <<<<"Instrs", "Time(s)">>, fsFiles[stats]>>
        ELSE <<>>

\* f"{self.options.dirName}.stats.csv"
StatsPath(opts) == PathPlus(opts.dirName, ".stats.csv")

\* KleeRunner.save_stats: the statistics file is opened with "w", which needs
\* its directory to exist, and klee-stats writes to it; started tells whether
\* klee-stats could be started.
save_stats(opts, fsDirs, fsFiles, started) ==
    LET path == Norm(StatsPath(opts))
        opened == Put(fsFiles, path, <<>>)
    IN  IF Parent(path) # <<>> /\ Parent(path) \notin fsDirs
        THEN [raised |-> TRUE, error |-> "FileNotFoundError", files |-> fsFiles,
              events |-> <<>>]
        ELSE IF ~started
        THEN [raised |-> TRUE, error |-> "OSError", files |-> opened,
              events |-> <<>>]
        ELSE [raised |-> FALSE, error |-> "",
              files |-> Put(opened, path, KleeStats(opts, fsDirs, opened)),
              events |-> <<"klee-stats">>]

\* mv source dest, its failure ignored.
Move(fsFiles, source, dest) ==
    IF Norm(source) \in DOMAIN fsFiles
    THEN Put(Restrict(fsFiles, DOMAIN fsFiles \ {Norm(source)}),
             Norm(dest), fsFiles[Norm(source)])
    ELSE fsFiles

\* A variant of cleanup that removes the output directory before it moves
\* the query log.
cleanup_remove_first(opts, fsDirs, fsFiles) ==
    LET removed == IF opts.removeOutput
                   THEN RemoveTree(fsDirs, fsFiles, opts.dirName)
                   ELSE [dirs |-> fsDirs, files |-> fsFiles]
        moved == IF opts.logFile # None
                 THEN Move(removed.files, opts.dirName \o <<"all-queries.smt2">>,
                           <<opts.logFile[1]>>)
                 ELSE removed.files
    IN  [fs |-> [dirs |-> removed.dirs, files |-> moved],
         events |-> (IF opts.removeOutput THEN <<"rm">> ELSE <<>>)
                    \o (IF opts.logFile # None THEN <<"mv">> ELSE <<>>)]

\* KleeRunner.cleanup: the query log is moved to logFile when logFile is set,
\* then the output directory is removed when removeOutput is set. (The log
\* files of the model are plain names.)
cleanup(opts, fsDirs, fsFiles) ==
    LET moved == IF opts.logFile # None
                 THEN Move(fsFiles, opts.dirName \o <<"all-queries.smt2">>,
                           <<opts.logFile[1]>>)
                 ELSE fsFiles
        removed == IF opts.removeOutput
                   THEN RemoveTree(fsDirs, moved, opts.dirName)
                   ELSE [dirs |-> fsDirs, files |-> moved]
    IN  [fs |-> removed,
         events |-> (IF opts.logFile # None THEN <<"mv">> ELSE <<>>)
                    \o (IF opts.removeOutput THEN <<"rm">> ELSE <<>>)]

\* The parts of the state a specification does not use stay at rest.
CmdAtRest == o = <<>> /\ cmdResult = <<>>

GetAtRest == kdata = <<>> /\ getResult = <<>>

CsvAtRest == csvFile = <<>> /\ fromCsvResult = <<>>

RunAtRest ==
    /\ pc = "" /\ dirs = {} /\ files = <<>>
    /\ events = <<>> /\ kleeExit = "" /\ results = <<>>

TextAtRest == fsText = <<>>

RcpAtRest == rcp = <<>> /\ written = <<>> /\ lastCall = <<>>

LogAtRest == logger = <<>> /\ logged = <<>> /\ lastPersist = <<>>

(***************************************************************************)
(* Specification SpecCommand: get_run_command over the configurations.     *)
(***************************************************************************)
InitCommand ==
    /\ o \in CommandOptions
    /\ cmdResult = NoCommand
    /\ GetAtRest /\ CsvAtRest /\ RunAtRest /\ TextAtRest /\ RcpAtRest /\ LogAtRest

GetRunCommand ==
    /\ cmdResult.status = "none"
    /\ cmdResult' = get_run_command(o)
    /\ UNCHANGED <<o, getVars, csvVars, runVars, fsText, rcpVars, logVars>>

NextCommand == GetRunCommand

SpecCommand == InitCommand /\ [][NextCommand]_vars

\* Every text that follows "--<key>=" in an element of a command of the model.
RenderedValues ==
    {"", "0", "30", "1000", "True", "all:smt2", "z3.log", "queries.smt2",
     "/replay/base64"}

\* The indices of the elements of cmd of the form --<key>=<value>.
FlagIndices(cmd, key) ==
    {i \in DOMAIN cmd : cmd[i] \in {"--" \o key \o "=" \o v : v \in RenderedValues}}

\* The flag of an optional field: absent when unset, once and with the
\* field's value when set. rendered is the Optional of the value's text.
OptionalFlagFollowsField(cmd, key, rendered) ==
    IF rendered = None
    THEN FlagIndices(cmd, key) = {}
    ELSE /\ Cardinality(FlagIndices(cmd, key)) = 1
         /\ \A i \in FlagIndices(cmd, key) : cmd[i] = "--" \o key \o "=" \o rendered[1]

\* C1: in a returned command the flag of each of solverTimeout, debugDumpZ3File,
\* stateOutputFile, trOutputFile, stateInputFile and trInputFile is present if
\* and only if the field is not None, exactly once, and carries the field's value.
C1_OptionalFlags ==
    cmdResult.status = "returned" =>
        LET cmd == cmdResult.command
            st == IF o.solverTimeout = None THEN None
                  ELSE Some(ToString(o.solverTimeout[1]))
        IN  /\ OptionalFlagFollowsField(cmd, "max-solver-time", st)
            /\ OptionalFlagFollowsField(cmd, "debug-z3-dump-queries", o.debugDumpZ3File)
            /\ OptionalFlagFollowsField(cmd, "state-output", o.stateOutputFile)
            /\ OptionalFlagFollowsField(cmd, "tr-output", o.trOutputFile)
            /\ OptionalFlagFollowsField(cmd, "state-input", o.stateInputFile)
            /\ OptionalFlagFollowsField(cmd, "tr-input", o.trInputFile)
            /\ \A i \in DOMAIN cmd : cmd[i] # ""

\* C1 witness: a returned command for a configuration with a field set to 0, a
\* field set to the empty text, a field set to a path and a field left unset.
C1_Witness ==
    /\ cmdResult.status = "returned"
    /\ o.solverTimeout = Some(0)
    /\ o.debugDumpZ3File = Some("")
    /\ o.stateOutputFile = Some("/replay/base64")
    /\ o.trInputFile = None

\* An Optional[int] that is unset in the sense of the run limit: None or 0.
Unset(opt) == opt = None \/ opt = Some(0)

\* C2: get_run_command raises AssertionError, returning no command, exactly when
\* timeToRun and instructions are both unset (None or 0); otherwise it returns
\* a command.
C2_RunLimitRequired ==
    cmdResult.status # "none" =>
        /\ cmdResult.status = "AssertionError"
               <=> (Unset(o.timeToRun) /\ Unset(o.instructions))
        /\ cmdResult.status = "AssertionError" => cmdResult.command = <<>>
        /\ cmdResult.status # "AssertionError"
               => cmdResult.status = "returned" /\ Len(cmdResult.command) > 0

\* C2 witness: the assertion fired for a limit of 0 seconds and no instruction
\* limit.
C2_Witness ==
    /\ cmdResult.status = "AssertionError"
    /\ o.timeToRun = Some(0)
    /\ o.instructions = None

(***************************************************************************)
(* Specification SpecGet: KResult.get over the texts a field can hold.     *)
(***************************************************************************)
MaxTextLen == 3

Alphabet == {"1", "7", "-", ".", "e", "_", " ", "x"}

Texts == UNION {[1..n -> Alphabet] : n \in 0..MaxTextLen}

KResultFields == {"Instrs", "Time(s)"}

InitGet ==
    /\ kdata \in {[f \in {"Instrs"} |-> t] : t \in Texts}
    /\ getResult = [type |-> "none", value |-> <<>>]
    /\ CmdAtRest /\ CsvAtRest /\ RunAtRest /\ TextAtRest /\ RcpAtRest /\ LogAtRest

Get(field) ==
    /\ getResult.type = "none"
    /\ getResult' = get(kdata, field)
    /\ UNCHANGED <<kdata, cmdVars, csvVars, runVars, fsText, rcpVars, logVars>>

NextGet == \E field \in KResultFields : Get(field)

SpecGet == InitGet /\ [][NextGet]_vars

\* C3: for a field present in the data, get returns an int when int() accepts
\* the stored text, a float when int() rejects it and float() accepts it, and
\* the text itself, unchanged, when both reject it; a text both accept (every
\* integer literal) comes back as an int.
C3_Coercion ==
    getResult.type \notin {"none", "TypeError"} =>
        LET s == kdata["Instrs"]
        IN  /\ PyInt(s).ok =>
                getResult.type = "int" /\ getResult.value = PyInt(s).value
            /\ (~PyInt(s).ok /\ PyFloat(s).ok) =>
                getResult.type = "float" /\ getResult.value = PyFloat(s).value
            /\ (~PyInt(s).ok /\ ~PyFloat(s).ok) =>
                getResult.type = "str" /\ getResult.value = s

\* C3 witness: "-17", which int() and float() both accept, came back as the
\* int -17.
C3_Witness ==
    /\ kdata["Instrs"] = <<"-", "1", "7">>
    /\ PyFloat(kdata["Instrs"]).ok
    /\ getResult.type = "int"
    /\ getResult.value = -17

(***************************************************************************)
(* Specification SpecCsv: KResult.from_csv over statistics files.          *)
(***************************************************************************)
MaxBodyLines == 3

StatsHeader == <<"Instrs", "Time(s)">>

StatsRows == {<<i, t>> : i \in {"100", "200"}, t \in {"1.5", "x"}}

StatsFiles ==
    {<<>>} \cup
    {<<StatsHeader>> \o body :
        body \in UNION {[1..n -> StatsRows \cup {<<>>}] : n \in 0..MaxBodyLines}}

InitCsv ==
    /\ csvFile \in StatsFiles
    /\ fromCsvResult = [status |-> "none", data |-> <<>>]
    /\ CmdAtRest /\ GetAtRest /\ RunAtRest /\ TextAtRest /\ RcpAtRest /\ LogAtRest

FromCsv ==
    /\ fromCsvResult.status = "none"
    /\ fromCsvResult' = from_csv(csvFile)
    /\ UNCHANGED <<csvFile, cmdVars, getVars, runVars, fsText, rcpVars, logVars>>

NextCsv == FromCsv

SpecCsv == InitCsv /\ [][NextCsv]_vars

\* The data rows of a statistics file: its lines after the header that are
\* not blank.
DataRowsOf(file) ==
    IF file = <<>> THEN <<>> ELSE SelectSeq(Tail(file), LAMBDA line : line # <<>>)

\* C4: from_csv raises AssertionError when the file holds more than one data
\* row; when it holds exactly one, it returns a KResult whose data maps each
\* header name to the cell of that row in the header's column.
C4_OneDataRow ==
    fromCsvResult.status # "none" =>
        LET rows == DataRowsOf(csvFile)
        IN  /\ Len(rows) > 1 => fromCsvResult.status = "AssertionError"
            /\ Len(rows) = 1 =>
                /\ fromCsvResult.status = "returned"
                /\ DOMAIN fromCsvResult.data = {csvFile[1][i] : i \in DOMAIN csvFile[1]}
                /\ \A i \in DOMAIN csvFile[1] :
                       fromCsvResult.data[csvFile[1][i]] = rows[1][i]

\* C4 witness, more than one data row: two data rows around a blank line, and
\* AssertionError.
C4_Witness ==
    /\ csvFile = <<StatsHeader, <<"100", "1.5">>, <<>>, <<"200", "1.5">>>>
    /\ fromCsvResult.status = "AssertionError"

(***************************************************************************)
(* Specification SpecPrinter: a ResultCSVPrinter is constructed, possibly  *)
(* over a file left by an earlier experiment, and used.                    *)
(***************************************************************************)
MaxRows == 3

MaxRowLen == 2

ColumnLists == {<<"Program">>, <<"Program", "Time (s)">>}

Items == {StrItem("base64"), IntItem(12)}

RowLists == UNION {[1..n -> Items] : n \in 0..MaxRowLen}

PrinterPaths == {CsvPath("results", a, r) : a \in BOOLEAN, r \in BOOLEAN}

OldCsv == "Program,Old\nod,1\n"

NoCall == [op |-> "none"]

InitPrinter ==
    /\ fsText \in {<<>>, [p \in PrinterPaths |-> OldCsv]}
    /\ rcp = <<>>
    /\ written = <<>>
    /\ lastCall = NoCall
    /\ CmdAtRest /\ GetAtRest /\ CsvAtRest /\ RunAtRest /\ LogAtRest

NewPrinter(column_names, experiment_name, append_csv, prepend_results) ==
    LET new == ResultCSVPrinter(fsText, column_names, experiment_name,
                                append_csv, prepend_results)
    IN  /\ rcp = <<>>
        /\ rcp' = new.self
        /\ fsText' = new.fs
        /\ written' = <<>>
        /\ lastCall' = [op |-> "init", before |-> fsText]
        /\ UNCHANGED <<cmdVars, getVars, csvVars, runVars, logVars>>

WriteRow(row) ==
    /\ rcp # <<>>
    /\ Len(written) < MaxRows
    /\ LET call == write_row(rcp, fsText, row)
       IN  /\ fsText' = call.fs
           /\ written' = IF call.raised THEN written ELSE Append(written, row)
           /\ lastCall' = [op |-> "write_row", row |-> row,
                           raised |-> call.raised, before |-> fsText]
    /\ UNCHANGED <<rcp, cmdVars, getVars, csvVars, runVars, logVars>>

Read ==
    /\ rcp # <<>>
    /\ lastCall' = [op |-> "read", returned |-> read(rcp, fsText)]
    /\ UNCHANGED <<fsText, rcp, written, cmdVars, getVars, csvVars, runVars, logVars>>

NextPrinter ==
    \/ \E c \in ColumnLists, a \in BOOLEAN, r \in BOOLEAN :
            NewPrinter(c, "results", a, r)
    \/ \E row \in RowLists : WriteRow(row)
    \/ Read

SpecPrinter == InitPrinter /\ [][NextPrinter]_vars

\* C6: write_row raises AssertionError exactly when the row's length differs
\* from the number of columns, and then no file is changed.
C6_RowLengthChecked ==
    lastCall.op = "write_row" =>
        /\ lastCall.raised <=> Len(lastCall.row) # Len(rcp.columns)
        /\ lastCall.raised => fsText = lastCall.before

\* C6 witness: a row of two items was refused by a printer of one column that
\* had written a row before.
C6_Witness ==
    /\ lastCall.op = "write_row"
    /\ lastCall.raised
    /\ Len(lastCall.row) = 2
    /\ Len(rcp.columns) = 1
    /\ Len(written) = 1

\* The lines of the rows, in order: each row's items joined by commas.
RECURSIVE RowLines(_)
RowLines(rows) ==
    IF rows = <<>> THEN ""
    ELSE JoinStr([i \in DOMAIN rows[1] |->
                     IF rows[1][i].kind = "int" THEN ToString(rows[1][i].n)
                     ELSE rows[1][i].s], ",")
         \o "\n" \o RowLines(Tail(rows))

\* C7: once a printer is constructed, its file holds, and read returns, the
\* header line followed by one line per successful write_row call, in call
\* order, whatever the file held before the construction.
C7_HeaderThenRows ==
    /\ rcp # <<>> =>
        read(rcp, fsText) = JoinStr(rcp.columns, ",") \o "\n" \o RowLines(written)
    /\ lastCall.op = "read" =>
        lastCall.returned = JoinStr(rcp.columns, ",") \o "\n" \o RowLines(written)

\* C7 witness: read returned the header and two rows, written in this order,
\* from a file that held other content before the construction.
C7_Witness ==
    /\ lastCall.op = "read"
    /\ rcp.columns = <<"Program", "Time (s)">>
    /\ written = << <<StrItem("base64"), IntItem(12)>>,
                    <<StrItem("base64"), StrItem("base64")>> >>
    /\ lastCall.returned = "Program,Time (s)\nbase64,12\nbase64,base64\n"
    /\ \E p \in DOMAIN fsText : p # rcp.csv_file /\ fsText[p] = OldCsv

(***************************************************************************)
(* Specification SpecLogger: a ProgressLogger is constructed, possibly     *)
(* over a progress file left by an earlier run, and used. The destination  *)
(* of persist_to_file is a "separate file": never the progress file.       *)
(***************************************************************************)
MaxLogged == 3

ProgressFiles == {"progress.txt", "run.log"}

Messages == {"Results for base64", "done"}

PersistPaths == {PersistPath("results", a, pp) : a \in BOOLEAN, pp \in BOOLEAN}

OldLog == "old\n\n\n"

InitLogger ==
    /\ fsText \in {<<>>, [p \in ProgressFiles \cup PersistPaths |-> OldLog]}
    /\ logger = <<>>
    /\ logged = <<>>
    /\ lastPersist = <<>>
    /\ CmdAtRest /\ GetAtRest /\ CsvAtRest /\ RunAtRest /\ RcpAtRest

NewLogger(progress_file) ==
    LET new == ProgressLogger(fsText, progress_file)
    IN  /\ logger = <<>>
        /\ logger' = new.self
        /\ fsText' = new.fs
        /\ logged' = <<>>
        /\ lastPersist' = <<>>
        /\ UNCHANGED <<cmdVars, getVars, csvVars, runVars, rcpVars>>

Log(progress) ==
    /\ logger # <<>>
    /\ Len(logged) < MaxLogged
    /\ fsText' = log(logger, fsText, progress)
    /\ logged' = Append(logged, progress)
    /\ UNCHANGED <<logger, lastPersist, cmdVars, getVars, csvVars, runVars, rcpVars>>

LogAndPrint(progress) ==
    /\ logger # <<>>
    /\ Len(logged) < MaxLogged
    /\ fsText' = log_and_print(logger, fsText, progress)
    /\ logged' = Append(logged, progress)
    /\ UNCHANGED <<logger, lastPersist, cmdVars, getVars, csvVars, runVars, rcpVars>>

PersistToFile(file, append_txt, prepend_progress) ==
    /\ logger # <<>>
    /\ fsText' = persist_to_file(logger, fsText, file, append_txt, prepend_progress)
    /\ lastPersist' = [dest |-> PersistPath(file, append_txt, prepend_progress),
                       count |-> Len(logged)]
    /\ UNCHANGED <<logger, logged, cmdVars, getVars, csvVars, runVars, rcpVars>>

NextLogger ==
    \/ \E f \in ProgressFiles : NewLogger(f)
    \/ \E m \in Messages : Log(m)
    \/ \E m \in Messages : LogAndPrint(m)
    \/ \E a \in BOOLEAN, pp \in BOOLEAN : PersistToFile("results", a, pp)

SpecLogger == InitLogger /\ [][NextLogger]_vars

\* The text of a log: each message followed by three line ends, in order.
RECURSIVE LogText(_)
LogText(messages) ==
    IF messages = <<>> THEN ""
    ELSE messages[1] \o "\n\n\n" \o LogText(Tail(messages))

RunOptions ==
    { KleeRunOptions(
        [name |-> "base64", dirName |-> d, searchStrategy |-> SearchStrategy.DFS,
         batchingInstrs |-> None, memory |-> 2000],
        [timeToRun |-> t, logFile |-> lf, removeOutput |-> r]) :
        d \in DirNames, t \in {None, Some(10)},
        lf \in {None, Some("queries.smt2")}, r \in BOOLEAN }

OldRow == <<"999", "9.9">>

\* What an earlier run that kept its output left behind.
OldFiles(opts) ==
    LET d == Norm(opts.dirName)
    IN  Put(Put(Put(Put(<<>>,
            d \o <<"run.stats">>, OldRow),
            d \o <<"all-queries.smt2">>, "old queries"),
            Norm(StatsPath(opts)), <<StatsHeader, OldRow>>),
            <<"queries.smt2">>, "old queries")

ToolExits ==
    { [kind |-> "OSError", code |-> 0, output |-> FALSE],
      [kind |-> "exited", code |-> 0, output |-> TRUE],
      [kind |-> "exited", code |-> 1, output |-> TRUE],
      [kind |-> "exited", code |-> 1, output |-> FALSE] }

ToolRows == {<<"100", "1.5">>, <<"200", "x">>}

NoExit == [kind |-> "none", code |-> 0, output |-> FALSE]

NoResult == [status |-> "none", error |-> "", by |-> "", data |-> <<>>]

Raised(error, by) == [status |-> "raised", error |-> error, by |-> by, data |-> <<>>]

InitRun ==
    /\ o \in RunOptions
    /\ cmdResult = NoCommand
    /\ pc = "prepare"
    /\ \E old \in BOOLEAN :
        /\ dirs = IF old THEN {Norm(o.dirName)} ELSE {}
        /\ files = IF old THEN OldFiles(o) ELSE <<>>
    /\ events = <<>>
    /\ kleeExit = NoExit
    /\ results = NoResult
    /\ \E withLogger \in BOOLEAN :
        /\ logger = IF withLogger THEN ProgressLogger(<<>>, "progress.txt").self ELSE <<>>
        /\ fsText = IF withLogger THEN ProgressLogger(<<>>, "progress.txt").fs ELSE <<>>
    /\ logged = <<>>
    /\ lastPersist = <<>>
    /\ GetAtRest /\ CsvAtRest /\ RcpAtRest

Prepare ==
    /\ pc = "prepare"
    /\ LET step == prepare(o, dirs, files)
       IN  /\ dirs' = step.fs.dirs
           /\ files' = step.fs.files
           /\ events' = events \o step.events
    /\ pc' = "get_run_command"
    /\ UNCHANGED <<o, cmdResult, kleeExit, results, fsText, logVars,
                   getVars, csvVars, rcpVars>>

BuildCommand ==
    /\ pc = "get_run_command"
    /\ cmdResult' = get_run_command(o)
    /\ IF cmdResult'.status = "AssertionError"
       THEN /\ pc' = "raised"
            /\ results' = Raised("AssertionError", "get_run_command")
            /\ UNCHANGED <<fsText, logged>>
       ELSE /\ pc' = "klee"
            /\ fsText' = log_command(IF logger = <<>> THEN None ELSE Some(logger),
                                     fsText, cmdResult'.command)
            /\ logged' = IF logger = <<>> THEN logged
                         ELSE Append(logged, CommandLogText(cmdResult'.command))
            /\ UNCHANGED results
    /\ UNCHANGED <<o, dirs, files, events, kleeExit, logger, lastPersist,
                   getVars, csvVars, rcpVars>>

RunTool(exit, row) ==
    /\ pc = "klee"
    /\ kleeExit' = exit
    /\ LET fs == KleeTool(cmdResult.command, o, dirs, files, exit, row)
       IN  dirs' = fs.dirs /\ files' = fs.files
    /\ events' = IF exit.kind = "exited" THEN Append(events, "klee") ELSE events
    /\ IF subprocess_run(exit).raised
       THEN pc' = "raised" /\ results' = Raised(subprocess_run(exit).error, "klee")
       ELSE pc' = "save_stats" /\ UNCHANGED results
    /\ UNCHANGED <<o, cmdResult, fsText, logVars, getVars, csvVars, rcpVars>>

SaveStats(started) ==
    /\ pc = "save_stats"
    /\ LET step == save_stats(o, dirs, files, started)
       IN  /\ files' = step.files
           /\ events' = events \o step.events
           /\ IF step.raised
              THEN pc' = "raised" /\ results' = Raised(step.error, "save_stats")
              ELSE pc' = "from_csv" /\ UNCHANGED results
    /\ UNCHANGED <<o, cmdResult, dirs, kleeExit, fsText, logVars,
                   getVars, csvVars, rcpVars>>

ParseStats ==
    /\ pc = "from_csv"
    /\ LET parsed == from_csv(files[Norm(StatsPath(o))])
       IN  IF parsed.status = "AssertionError"
           THEN pc' = "raised" /\ results' = Raised("AssertionError", "from_csv")
           ELSE /\ pc' = "cleanup"
                /\ results' = [status |-> "parsed", error |-> "", by |-> "",
                               data |-> parsed.data]
    /\ events' = Append(events, "from_csv")
    /\ UNCHANGED <<o, cmdResult, dirs, files, kleeExit, fsText, logVars,
                   getVars, csvVars, rcpVars>>

Cleanup ==
    /\ pc = "cleanup"
    /\ LET step == cleanup(o, dirs, files)
       IN  /\ dirs' = step.fs.dirs
           /\ files' = step.fs.files
           /\ events' = events \o step.events
    /\ pc' = "done"
    /\ results' = [results EXCEPT !.status = "returned"]
    /\ UNCHANGED <<o, cmdResult, kleeExit, fsText, logVars, getVars, csvVars, rcpVars>>

NextRun ==
    \/ Prepare
    \/ BuildCommand
    \/ \E exit \in ToolExits, row \in ToolRows : RunTool(exit, row)
    \/ \E started \in BOOLEAN : SaveStats(started)
    \/ ParseStats
    \/ Cleanup

SpecRun == InitRun /\ [][NextRun]_vars

Occurred(e) == \E i \in DOMAIN events : events[i] = e

\* C5, as claimed: once the external tool has exited with an error, run
\* collects no statistics and returns no KResult.
C5_FailurePropagates ==
    (kleeExit.kind = "exited" /\ kleeExit.code # 0) =>
        /\ ~Occurred("klee-stats")
        /\ results.status \notin {"parsed", "returned"}

\* C5, amended: the exit status of the external tool is not looked at. After
\* the tool has exited, with whatever status, run goes on to save_stats and
\* from_csv, can only raise from those, and returns the row the tool's
\* statistics hold; only a tool that cannot be started (OSError) makes run
\* raise at that step, and then no statistics are collected.
C5_ExitStatusIgnored ==
    /\ kleeExit.kind = "OSError" =>
        /\ pc = "raised"
        /\ results.status = "raised" /\ results.error = "OSError" /\ results.by = "klee"
        /\ ~Occurred("klee-stats") /\ ~Occurred("from_csv")
    /\ kleeExit.kind = "exited" =>
        /\ pc \in {"save_stats", "from_csv", "cleanup", "done", "raised"}
        /\ pc = "raised" => results.by \in {"save_stats", "from_csv"}
        /\ pc \in {"from_csv", "cleanup", "done"} => Occurred("klee-stats")
        /\ pc \in {"cleanup", "done"} =>
            /\ kleeExit.output
            /\ results.status \in {"parsed", "returned"}
            /\ \E row \in ToolRows : results.data = ZipDict(StatsHeader, row)

\* C5 witness: the tool exited with status 1 and run returned a KResult.
C5_Witness ==
    /\ kleeExit.kind = "exited"
    /\ kleeExit.code = 1
    /\ pc = "done"
    /\ results.status = "returned"
    /\ Occurred("klee-stats")

\* C8, as claimed: after a run that returned a KResult the statistics file
\* exists and holds the row the KResult was built from, the output directory
\* exists if and only if removeOutput is False, and the statistics file lies
\* outside the output directory.
C8_StatsSurviveCleanup ==
    pc = "done" =>
        LET path == PathPlus(o.dirName, ".stats.csv")
        IN  /\ Norm(path) \in DOMAIN files
            /\ Len(DataRowsOf(files[Norm(path)])) = 1
            /\ \A i \in DOMAIN StatsHeader :
                   results.data[StatsHeader[i]] = DataRowsOf(files[Norm(path)])[1][i]
            /\ Norm(o.dirName) \in dirs <=> ~o.removeOutput
            /\ ~Inside(path, o.dirName)

\* The one order of the external effects of a run.
RunOrder == <<"rmtree", "klee", "klee-stats", "from_csv", "mv", "rm">>

\* s is t with some of its elements left out.
RECURSIVE IsSubsequence(_, _)
IsSubsequence(s, t) ==
    IF s = <<>> THEN TRUE
    ELSE IF t = <<>> THEN FALSE
    ELSE IF Head(s) = Head(t) THEN IsSubsequence(Tail(s), Tail(t))
    ELSE IsSubsequence(s, Tail(t))

\* C10: the effects of a run happen in one order: removal of an existing
\* output directory, the tool, klee-stats, the parse, the move of the query
\* log, the removal of the output directory. The tool starts with no output
\* directory in place, klee-stats runs only after the tool has exited, and the
\* output directory is removed by cleanup only after the statistics have been
\* parsed and the query log the tool wrote has been moved to logFile.
C10_FixedOrder ==
    /\ IsSubsequence(events, RunOrder)
    /\ pc = "klee" => Norm(o.dirName) \notin dirs
    /\ Occurred("klee-stats") => kleeExit.kind = "exited"
    /\ (Occurred("mv") \/ Occurred("rm")) => results.status \in {"parsed", "returned"}
    /\ pc = "done" =>
        /\ Occurred("mv") <=> o.logFile # None
        /\ Occurred("rm") <=> o.removeOutput
    /\ (Occurred("rm") /\ o.logFile # None) =>
        /\ <<o.logFile[1]>> \in DOMAIN files
        /\ files[<<o.logFile[1]>>] = QueryLog

\* C10 witness: a run over the leftovers of an earlier one went through all six
\* effects and ended with the new query log in logFile.
C10_Witness ==
    /\ pc = "done"
    /\ events = RunOrder
    /\ files[<<"queries.smt2">>] = QueryLog

(***************************************************************************)
(* The shape of the command, in specification SpecCommand.                 *)
(***************************************************************************)
\* The Optional fields whose flag opt_arg leaves out when the field is None.
OmittableFields ==
    {"solverTimeout", "logFile", "batchingInstrs", "debugDumpZ3File",
     "stateOutputFile", "trOutputFile", "stateInputFile", "trInputFile"}

\* The Optional fields whose flags are written whether the field is set or not.
RunLimitFields == {"timeToRun", "instructions"}

\* A value for an Optional field that is set.
SetValue(field) ==
    IF field \in {"solverTimeout", "timeToRun", "instructions"} THEN Some(30)
    ELSE IF field = "batchingInstrs" THEN Some(1000)
    ELSE Some("/replay/base64")

\* The configuration opts with its unset (None) fields among S set.
WithSet(opts, S) ==
    [k \in DOMAIN opts |->
        IF k \in S /\ opts[k] = None THEN SetValue(k) ELSE opts[k]]

\* The sets of fields set together: none, each field alone, all of them.
SetChoices(fields) == {{}} \cup {{f} : f \in fields} \cup {fields}

\* The texts of the run limits in the commands of the model.
LimitTexts == {"0", "30"}

\* An element of a command, the value of a run-limit flag left out of it.
FlagOnly(e) ==
    IF e \in {"--max-time=" \o v \o "s" : v \in LimitTexts} THEN "--max-time"
    ELSE IF e \in {"--watchdog=True", "--watchdog=False"} THEN "--watchdog"
    ELSE IF e \in {"--max-instructions=" \o v : v \in LimitTexts}
         THEN "--max-instructions"
    ELSE e

FlagsOnly(cmd) == [i \in DOMAIN cmd |-> FlagOnly(cmd[i])]

\* The bitcode file of each program name of the model.
BitcodeOf ==
    ("base64" :> "base64.bc") @@ ("echo" :> "echo.bc") @@ ("od.bc" :> "od.bc")

\* The symbolic arguments of each program name of the model: echo has its own,
\* the others (od.bc is not the key "od") the common ones.
SymArgsOf ==
    LET common == "--sym-args 0 1 10 --sym-args 0 2 2 --sym-files 1 8 --sym-stdin 8 --sym-stdout"
    IN  ("base64" :> common) @@ ("od.bc" :> common)
        @@ ("echo" :> "--sym-args 0 4 300 --sym-files 2 30 --sym-stdin 30 --sym-stdout")

\* The klee executable first, the program's bitcode and its symbolic
\* arguments last, and no empty element.
CommandFrame(cmd, opts) ==
    /\ Len(cmd) >= 3
    /\ cmd[1] = KLEE_BIN_PATH \o "/klee"
    /\ cmd[Len(cmd) - 1] = COREUTILS_SRC_PATH \o "/" \o BitcodeOf[opts.name]
    /\ cmd[Len(cmd)] = SymArgsOf[opts.name]
    /\ \A i \in DOMAIN cmd : cmd[i] # ""

\* C11 as stated: a returned command has the klee executable first, the
\* program's bitcode path and symbolic arguments last and no empty element, and
\* it is a subsequence of the command of the same configuration with any of
\* its unset Optional fields set (one of them, or all).
C11_SubsequenceOfSet ==
    cmdResult.status = "returned" =>
        /\ CommandFrame(cmdResult.command, o)
        /\ \A S \in SetChoices(OmittableFields \cup RunLimitFields) :
               LET other == get_run_command(WithSet(o, S))
               IN  other.status = "returned"
                       => IsSubsequence(cmdResult.command, other.command)

\* C11, amended: a returned command has the klee executable first, the
\* program's bitcode path and symbolic arguments last and no empty element. It
\* is a subsequence of the command of the same configuration with any of the
\* unset fields given to opt_arg set (one of them, or all). Setting timeToRun or instructions as well
\* changes the values of --max-time, --watchdog and --max-instructions, which
\* are in every command, next to each other and in this order; their values
\* aside, the command is still a subsequence.
C11_CommandShape ==
    cmdResult.status = "returned" =>
        LET cmd == cmdResult.command
        IN  /\ CommandFrame(cmd, o)
            /\ \E i \in DOMAIN cmd :
                   /\ i + 2 \in DOMAIN cmd
                   /\ FlagOnly(cmd[i]) = "--max-time"
                   /\ FlagOnly(cmd[i + 1]) = "--watchdog"
                   /\ FlagOnly(cmd[i + 2]) = "--max-instructions"
            /\ \A S \in SetChoices(OmittableFields) :
                   /\ get_run_command(WithSet(o, S)).status = "returned"
                   /\ IsSubsequence(cmd, get_run_command(WithSet(o, S)).command)
                   /\ \A T \in SetChoices(RunLimitFields) :
                          LET other == get_run_command(WithSet(o, S \cup T))
                          IN  /\ other.status = "returned"
                              /\ IsSubsequence(FlagsOnly(cmd), FlagsOnly(other.command))

\* C11 witness: a returned command for a configuration with no field given to
\* opt_arg set, no time limit and no manual options, which is shorter than
\* the command of the same configuration with those fields set.
C11_Witness ==
    /\ cmdResult.status = "returned"
    /\ \A f \in OmittableFields : o[f] = None
    /\ o.timeToRun = None
    /\ o.additionalOptions = ""
    /\ CommandFrame(cmdResult.command, o)
    /\ Len(get_run_command(WithSet(o, OmittableFields)).command)
           = Len(cmdResult.command) + Cardinality(OmittableFields) + 1

====
